---- MODULE Spec2Model ----
(***************************************************************************)
(* A model of the colored text encoder of zapcolors                        *)
(* (colored_text_encoder.go).                                              *)
(*                                                                         *)
(* Byte slices and strings are sequences of byte values (0..255).  Every   *)
(* instance owns its backing array (textPool.New makes one per instance,   *)
(* append only ever re-assigns enc.bytes to a slice of the instance's own  *)
(* array or of a fresh one), so enc.bytes is held by value; what can be    *)
(* shared between borrowers is the *textEncoder pointer, modelled by the   *)
(* instance identifiers of Inst.                                           *)
(***************************************************************************)
EXTENDS Integers, Sequences, FiniteSets, TLC

(***************************************************************************)
(* Bytes                                                                   *)
(***************************************************************************)
NL == <<10>>
SP == <<32>>
EQ == <<61>>
LBRACE == <<123>>
RBRACE == <<125>>

RECURSIVE SumBytes(_)
SumBytes(s) == IF s = <<>> THEN 0 ELSE Head(s) + SumBytes(Tail(s))

RECURSIVE Repeat(_, _)
Repeat(b, n) == IF n <= 0 THEN <<>> ELSE <<b>> \o Repeat(b, n - 1)

IsPrefix(p, s) == Len(p) <= Len(s) /\ SubSeq(s, 1, Len(p)) = p

Last(s) == s[Len(s)]

\* "0123456789abcdefghijklmnopqrstuvwxyz"[d], strconv's digit table
DigitByte(d) == IF d < 10 THEN 48 + d ELSE 87 + d

\* strconv.AppendUint(nil, v, base)
RECURSIVE FormatUint(_, _)
FormatUint(v, base) ==
    IF v < base THEN <<DigitByte(v)>>
    ELSE FormatUint(v \div base, base) \o <<DigitByte(v % base)>>

\* strconv.AppendInt(nil, v, base)
FormatInt(v, base) ==
    IF v < 0 THEN <<45>> \o FormatUint(0 - v, base) ELSE FormatUint(v, base)

\* strconv.AppendBool(nil, v)
FormatBool(v) ==
    IF v THEN <<116, 114, 117, 101>> ELSE <<102, 97, 108, 115, 101>>

RECURSIVE Pow(_, _)
Pow(b, n) == IF n = 0 THEN 1 ELSE b * Pow(b, n - 1)

RECURSIVE StripZeros(_)
StripZeros(s) ==
    IF s # <<>> /\ Last(s) = 48 THEN StripZeros(SubSeq(s, 1, Len(s) - 1)) ELSE s

\* n in decimal, left-padded with zeros to at least w digits
ZeroPad(n, w) ==
    LET d == FormatUint(n, 10) IN Repeat(48, w - Len(d)) \o d

\* strconv.AppendFloat(nil, f, 'f', -1, 64) for the float64 f = num / 2^exp2
\* (a finite dyadic value with few digits): the shortest decimal that parses
\* back to f is its exact expansion, num * 5^exp2 / 10^exp2, without trailing
\* zeros and without a point when no fraction digit is left.
FormatFloat(f) ==
    LET abs  == IF f.num < 0 THEN 0 - f.num ELSE f.num
        n    == abs * Pow(5, f.exp2)
        ip   == n \div Pow(10, f.exp2)
        frac == StripZeros(IF f.exp2 = 0 THEN <<>>
                           ELSE ZeroPad(n % Pow(10, f.exp2), f.exp2))
    IN (IF f.num < 0 THEN <<45>> ELSE <<>>)
       \o FormatUint(ip, 10)
       \o (IF frac = <<>> THEN <<>> ELSE <<46>> \o frac)

\* fmt.Sprintf("%+v", obj) for the operands used here: an int, a string, a
\* bool and the nil interface
FormatObject(obj) ==
    CASE obj.kind = "int"    -> FormatInt(obj.v, 10)
      [] obj.kind = "string" -> obj.v
      [] obj.kind = "bool"   -> FormatBool(obj.v)
      [] OTHER               -> <<60, 110, 105, 108, 62>>

\* the number of bytes utf8.RuneCountInString takes as the first rune of the
\* non-empty s: the length of a well-formed encoding at its head, else one
\* byte (a stray continuation byte, a byte no encoding starts with, an
\* encoding cut short, overlong or of a surrogate)
RuneSize(s) ==
    LET c == s[1]
        size == IF c \in 194..223 THEN 2
                ELSE IF c \in 224..239 THEN 3
                ELSE IF c \in 240..244 THEN 4
                ELSE 1
        lo == IF c = 224 THEN 160 ELSE IF c = 240 THEN 144 ELSE 128
        hi == IF c = 237 THEN 159 ELSE IF c = 244 THEN 143 ELSE 191
    IN IF size = 1 \/ Len(s) < size THEN 1
       ELSE IF s[2] \notin lo..hi THEN 1
       ELSE IF size = 2 THEN 2
       ELSE IF s[3] \notin 128..191 THEN 1
       ELSE IF size = 3 THEN 3
       ELSE IF s[4] \notin 128..191 THEN 1
       ELSE 4

\* utf8.RuneCountInString, the count fmt pads a string by
RECURSIVE RuneCount(_)
RuneCount(s) ==
    IF s = <<>> THEN 0
    ELSE 1 + RuneCount(SubSeq(s, RuneSize(s) + 1, Len(s)))

(***************************************************************************)
(* time.Time.AppendFormat, for a time of whole seconds in UTC, a record    *)
(* [year, month, day, hour, min, sec].  The layout is read as Go reads it: *)
(* at each byte the reference chunk that starts there is replaced by the   *)
(* time's value, any other byte is copied.                                 *)
(***************************************************************************)
RFC3339 ==
    <<50, 48, 48, 54, 45, 48, 49, 45, 48, 50, 84,
      49, 53, 58, 48, 52, 58, 48, 53, 90, 48, 55, 58, 48, 48>>

\* time.Month.String and time.Weekday.String
MonthNames ==
    <<<<74, 97, 110, 117, 97, 114, 121>>,
      <<70, 101, 98, 114, 117, 97, 114, 121>>,
      <<77, 97, 114, 99, 104>>,
      <<65, 112, 114, 105, 108>>,
      <<77, 97, 121>>,
      <<74, 117, 110, 101>>,
      <<74, 117, 108, 121>>,
      <<65, 117, 103, 117, 115, 116>>,
      <<83, 101, 112, 116, 101, 109, 98, 101, 114>>,
      <<79, 99, 116, 111, 98, 101, 114>>,
      <<78, 111, 118, 101, 109, 98, 101, 114>>,
      <<68, 101, 99, 101, 109, 98, 101, 114>>>>

DayNames ==
    <<<<83, 117, 110, 100, 97, 121>>,
      <<77, 111, 110, 100, 97, 121>>,
      <<84, 117, 101, 115, 100, 97, 121>>,
      <<87, 101, 100, 110, 101, 115, 100, 97, 121>>,
      <<84, 104, 117, 114, 115, 100, 97, 121>>,
      <<70, 114, 105, 100, 97, 121>>,
      <<83, 97, 116, 117, 114, 100, 97, 121>>>>

IsLeap(y) == (y % 4 = 0 /\ y % 100 # 0) \/ y % 400 = 0

\* days of the year before the first of month m
DaysBefore(y, m) ==
    LET d == <<0, 31, 59, 90, 120, 151, 181, 212, 243, 273, 304, 334>>
    IN d[m] + (IF m > 2 /\ IsLeap(y) THEN 1 ELSE 0)

\* time.Time.YearDay
YearDay(t) == DaysBefore(t.year, t.month) + t.day

\* time.Time.Weekday, Sunday = 0: the days since 1970-01-01, a Thursday
Weekday(t) ==
    LET y == IF t.month <= 2 THEN t.year - 1 ELSE t.year
        era == y \div 400
        yoe == y - era * 400
        mp == IF t.month > 2 THEN t.month - 3 ELSE t.month + 9
        doy == (153 * mp + 2) \div 5 + t.day - 1
        doe == yoe * 365 + yoe \div 4 - yoe \div 100 + doy
        days == era * 146097 + doe - 719468
    IN (days + 4) % 7

\* appendInt(b, x, width)
AppendInt(x, width) ==
    IF x < 0 THEN <<45>> \o ZeroPad(0 - x, width) ELSE ZeroPad(x, width)

IsLower(b) == b \in 97..122

IsDigitByte(b) == b \in 48..57

\* how many bytes equal to ch stand at the head of s
RECURSIVE RunOf(_, _)
RunOf(ch, s) ==
    IF s # <<>> /\ Head(s) = ch THEN 1 + RunOf(ch, Tail(s)) ELSE 0

\* nextStdChunk at the head of the non-empty layout: the chunk that starts
\* at its first byte and the chunk's length, or "none"
StdChunk(layout) ==
    LET c == layout[1]
        n == Len(layout)
        Has(p) == IsPrefix(p, layout)
        Lower(k) == n > k /\ IsLower(layout[k + 1])
        Is(std, len) == [std |-> std, len |-> len]
        None == Is("none", 1)
    IN CASE c = 74 ->
              IF Has(<<74, 97, 110, 117, 97, 114, 121>>) THEN Is("stdLongMonth", 7)
              ELSE IF Has(<<74, 97, 110>>) /\ ~Lower(3) THEN Is("stdMonth", 3)
              ELSE None
         [] c = 77 ->
              IF Has(<<77, 111, 110, 100, 97, 121>>) THEN Is("stdLongWeekDay", 6)
              ELSE IF Has(<<77, 111, 110>>) /\ ~Lower(3) THEN Is("stdWeekDay", 3)
              ELSE IF Has(<<77, 83, 84>>) THEN Is("stdTZ", 3)
              ELSE None
         [] c = 48 ->
              IF n >= 2 /\ layout[2] \in 49..54
              THEN Is(<<"stdZeroMonth", "stdZeroDay", "stdZeroHour12", "stdZeroMinute",
                        "stdZeroSecond", "stdYear">>[layout[2] - 48], 2)
              ELSE IF Has(<<48, 48, 50>>) THEN Is("stdZeroYearDay", 3)
              ELSE None
         [] c = 49 -> IF Has(<<49, 53>>) THEN Is("stdHour", 2) ELSE Is("stdNumMonth", 1)
         [] c = 50 -> IF Has(<<50, 48, 48, 54>>) THEN Is("stdLongYear", 4) ELSE Is("stdDay", 1)
         [] c = 95 ->
              IF Has(<<95, 50>>)
              THEN (IF Has(<<95, 50, 48, 48, 54>>) THEN None ELSE Is("stdUnderDay", 2))
              ELSE IF Has(<<95, 95, 50>>) THEN Is("stdUnderYearDay", 3)
              ELSE None
         [] c = 51 -> Is("stdHour12", 1)
         [] c = 52 -> Is("stdMinute", 1)
         [] c = 53 -> Is("stdSecond", 1)
         [] c = 80 -> IF Has(<<80, 77>>) THEN Is("stdPM", 2) ELSE None
         [] c = 112 -> IF Has(<<112, 109>>) THEN Is("stdpm", 2) ELSE None
         [] c = 45 ->
              IF Has(<<45, 48, 55, 48, 48, 48, 48>>) THEN Is("stdNumSecondsTz", 7)
              ELSE IF Has(<<45, 48, 55, 58, 48, 48, 58, 48, 48>>) THEN Is("stdNumColonSecondsTZ", 9)
              ELSE IF Has(<<45, 48, 55, 48, 48>>) THEN Is("stdNumTZ", 5)
              ELSE IF Has(<<45, 48, 55, 58, 48, 48>>) THEN Is("stdNumColonTZ", 6)
              ELSE IF Has(<<45, 48, 55>>) THEN Is("stdNumShortTZ", 3)
              ELSE None
         [] c = 90 ->
              IF Has(<<90, 48, 55, 48, 48, 48, 48>>) THEN Is("stdISO8601SecondsTZ", 7)
              ELSE IF Has(<<90, 48, 55, 58, 48, 48, 58, 48, 48>>) THEN Is("stdISO8601ColonSecondsTZ", 9)
              ELSE IF Has(<<90, 48, 55, 48, 48>>) THEN Is("stdISO8601TZ", 5)
              ELSE IF Has(<<90, 48, 55, 58, 48, 48>>) THEN Is("stdISO8601ColonTZ", 6)
              ELSE IF Has(<<90, 48, 55>>) THEN Is("stdISO8601ShortTZ", 3)
              ELSE None
         [] c \in {44, 46} ->
              IF n >= 2 /\ layout[2] \in {48, 57}
              THEN LET run == RunOf(layout[2], Tail(layout))
                   IN IF n > run + 1 /\ IsDigitByte(layout[run + 2]) THEN None
                      ELSE Is(IF layout[2] = 48 THEN "stdFracSecond0" ELSE "stdFracSecond9",
                              run + 1)
              ELSE None
         [] OTHER -> None

\* what appendFormat writes for the chunk ch, read at the head of layout
FormatChunk(t, ch, layout) ==
    LET std == ch.std
        hr12 == IF t.hour % 12 = 0 THEN 12 ELSE t.hour % 12
        yday == YearDay(t)
    IN CASE std = "stdYear" ->
              AppendInt((IF t.year < 0 THEN 0 - t.year ELSE t.year) % 100, 2)
         [] std = "stdLongYear" -> AppendInt(t.year, 4)
         [] std = "stdMonth" -> SubSeq(MonthNames[t.month], 1, 3)
         [] std = "stdLongMonth" -> MonthNames[t.month]
         [] std = "stdNumMonth" -> AppendInt(t.month, 0)
         [] std = "stdZeroMonth" -> AppendInt(t.month, 2)
         [] std = "stdWeekDay" -> SubSeq(DayNames[Weekday(t) + 1], 1, 3)
         [] std = "stdLongWeekDay" -> DayNames[Weekday(t) + 1]
         [] std = "stdDay" -> AppendInt(t.day, 0)
         [] std = "stdUnderDay" -> (IF t.day < 10 THEN SP ELSE <<>>) \o AppendInt(t.day, 0)
         [] std = "stdZeroDay" -> AppendInt(t.day, 2)
         [] std = "stdUnderYearDay" ->
              (IF yday < 10 THEN SP \o SP ELSE IF yday < 100 THEN SP ELSE <<>>)
              \o AppendInt(yday, 0)
         [] std = "stdZeroYearDay" -> AppendInt(yday, 3)
         [] std = "stdHour" -> AppendInt(t.hour, 2)
         [] std = "stdHour12" -> AppendInt(hr12, 0)
         [] std = "stdZeroHour12" -> AppendInt(hr12, 2)
         [] std = "stdMinute" -> AppendInt(t.min, 0)
         [] std = "stdZeroMinute" -> AppendInt(t.min, 2)
         [] std = "stdSecond" -> AppendInt(t.sec, 0)
         [] std = "stdZeroSecond" -> AppendInt(t.sec, 2)
         [] std = "stdPM" -> IF t.hour >= 12 THEN <<80, 77>> ELSE <<65, 77>>
         [] std = "stdpm" -> IF t.hour >= 12 THEN <<112, 109>> ELSE <<97, 109>>
         [] std \in {"stdISO8601TZ", "stdISO8601ColonTZ", "stdISO8601SecondsTZ",
                     "stdISO8601ShortTZ", "stdISO8601ColonSecondsTZ"} -> <<90>>
         [] std = "stdNumSecondsTz" -> <<43, 48, 48, 48, 48, 48, 48>>
         [] std = "stdNumColonSecondsTZ" -> <<43, 48, 48, 58, 48, 48, 58, 48, 48>>
         [] std = "stdNumTZ" -> <<43, 48, 48, 48, 48>>
         [] std = "stdNumColonTZ" -> <<43, 48, 48, 58, 48, 48>>
         [] std = "stdNumShortTZ" -> <<43, 48, 48>>
         [] std = "stdTZ" -> <<85, 84, 67>>
         [] std = "stdFracSecond0" ->
              <<layout[1]>> \o Repeat(48, IF ch.len - 1 < 9 THEN ch.len - 1 ELSE 9)
         [] std = "stdFracSecond9" -> <<>>
         [] OTHER -> <<layout[1]>>

RECURSIVE AppendFormat(_, _)
AppendFormat(t, layout) ==
    IF layout = <<>> THEN <<>>
    ELSE LET ch == StdChunk(layout)
         IN FormatChunk(t, ch, layout)
            \o AppendFormat(t, SubSeq(layout, ch.len + 1, Len(layout)))

(***************************************************************************)
(* The encoder: a textEncoder value is a record                            *)
(* [bytes, timeFmt, firstNested]; each method is the function from the     *)
(* receiver (and arguments) to the receiver after the call.                *)
(***************************************************************************)
\* textPool.New
NewInstance == [bytes |-> <<>>, timeFmt |-> <<>>, firstNested |-> FALSE]

truncate(enc) == [enc EXCEPT !.bytes = <<>>]

\* a color that is the remainder alone
KeyColor_noPlusOne(key) == SumBytes(key) % 7

\* color := (sum % 7) + 1
KeyColor(key) == (SumBytes(key) % 7) + 1

\* fmt.Sprintf("\x1b[3%d;1m%s\x1b[0m", color, key)
ColoredKey(key) ==
    <<27, 91, 51>> \o FormatInt(KeyColor(key), 10) \o <<59, 49, 109>>
    \o key \o <<27, 91, 48, 109>>

\* an addKey that leaves the frame's flag set
addKey_stickyFlag(enc, key) ==
    LET lastIdx == Len(enc.bytes) - 1
        sep == lastIdx >= 0 /\ ~enc.firstNested
    IN [enc EXCEPT !.bytes = (IF sep THEN @ \o SP ELSE @) \o ColoredKey(key) \o EQ]

\* an addKey that starts the buffer over
addKey_reset(enc, key) ==
    [enc EXCEPT !.bytes = ColoredKey(key) \o EQ, !.firstNested = FALSE]

addKey(enc, key) ==
    LET lastIdx == Len(enc.bytes) - 1
        sep == lastIdx >= 0 /\ ~enc.firstNested
    IN [enc EXCEPT
          !.bytes = (IF sep THEN @ \o SP ELSE @) \o ColoredKey(key) \o EQ,
          !.firstNested = IF sep THEN @ ELSE FALSE]

appendBytes(enc, b) == [enc EXCEPT !.bytes = @ \o b]

AddString(enc, key, val) == appendBytes(addKey(enc, key), val)

AddBool(enc, key, val) == appendBytes(addKey(enc, key), FormatBool(val))

AddInt64(enc, key, val) == appendBytes(addKey(enc, key), FormatInt(val, 10))

AddInt(enc, key, val) == AddInt64(enc, key, val)

AddUint64(enc, key, val) == appendBytes(addKey(enc, key), FormatUint(val, 10))

AddUint(enc, key, val) == AddUint64(enc, key, val)

AddUintptr(enc, key, val) ==
    appendBytes(appendBytes(addKey(enc, key), <<48, 120>>), FormatUint(val, 16))

AddFloat64(enc, key, val) == appendBytes(addKey(enc, key), FormatFloat(val))

AddObject(enc, key, obj) == AddString(enc, key, FormatObject(obj))

\* AddMarshaler up to the call of obj.MarshalLog(enc)
AddMarshalerEnter(enc, key) ==
    [appendBytes(addKey(enc, key), LBRACE) EXCEPT !.firstNested = TRUE]

\* an AddMarshaler that closes the frame and leaves the flag as it finds it
AddMarshalerLeave_keepFlag(enc) == appendBytes(enc, RBRACE)

\* AddMarshaler after obj.MarshalLog(enc) has returned
AddMarshalerLeave(enc) == [appendBytes(enc, RBRACE) EXCEPT !.firstNested = FALSE]

\* a Clone that does not copy the time layout
Clone_noLayout(clone, enc) ==
    [bytes |-> enc.bytes, timeFmt |-> clone.timeFmt, firstNested |-> enc.firstNested]

\* a Clone that does not copy the frame's flag
Clone_noFlag(clone, enc) ==
    [bytes |-> enc.bytes, timeFmt |-> enc.timeFmt, firstNested |-> clone.firstNested]

\* Clone's effect on the instance taken from the pool
Clone(clone, enc) ==
    [bytes |-> truncate(clone).bytes \o enc.bytes,
     timeFmt |-> enc.timeFmt,
     firstNested |-> enc.firstNested]

\* options
TextTimeFormat(layout) == [layout |-> layout]

TextNoTime == TextTimeFormat(<<>>)

apply(opt, enc) == [enc EXCEPT !.timeFmt = opt.layout]

\* options of which only the first is applied
ApplyAll_firstWins(options, enc) ==
    IF options = <<>> THEN enc ELSE apply(Head(options), enc)

RECURSIVE ApplyAll(_, _)
ApplyAll(options, enc) ==
    IF options = <<>> THEN enc
    ELSE ApplyAll(Tail(options), apply(Head(options), enc))

\* a NewColorEncoder that keeps the bytes of the instance it is given
NewColorEncoder_noTruncate(pooled, options) ==
    ApplyAll(options, [pooled EXCEPT !.timeFmt = RFC3339])

\* NewColorEncoder's effect on the instance taken from the pool
NewColorEncoder(pooled, options) ==
    ApplyAll(options, [truncate(pooled) EXCEPT !.timeFmt = RFC3339])

\* zap.Level values
DebugLevel == -1
InfoLevel == 0
WarnLevel == 1
ErrorLevel == 2
PanicLevel == 3
FatalLevel == 4

\* "\x1b[3<c>;1m[<abbr>]\x1b[0m"
Tag(c, abbr) ==
    <<27, 91, 51, c, 59, 49, 109, 91>> \o abbr \o <<93, 27, 91, 48, 109>>

\* an addLevel that brackets the number of a level it does not know
addLevel_bracketNumber(final, lvl) ==
    appendBytes(final,
        CASE lvl = DebugLevel -> Tag(50, <<68, 69, 66, 71>>)
          [] lvl = InfoLevel  -> Tag(52, <<73, 78, 70, 79>>)
          [] lvl = WarnLevel  -> Tag(51, <<87, 65, 82, 78>>)
          [] lvl = ErrorLevel -> Tag(49, <<69, 82, 82, 79>>)
          [] lvl = PanicLevel -> Tag(49, <<80, 65, 78, 67>>)
          [] lvl = FatalLevel -> Tag(49, <<70, 65, 84, 65>>)
          [] OTHER            -> <<91>> \o FormatInt(lvl, 10) \o <<93>>)

\* an addLevel with one color for every tag
addLevel_allRed(final, lvl) ==
    appendBytes(final,
        CASE lvl = DebugLevel -> Tag(49, <<68, 69, 66, 71>>)
          [] lvl = InfoLevel  -> Tag(49, <<73, 78, 70, 79>>)
          [] lvl = WarnLevel  -> Tag(49, <<87, 65, 82, 78>>)
          [] lvl = ErrorLevel -> Tag(49, <<69, 82, 82, 79>>)
          [] lvl = PanicLevel -> Tag(49, <<80, 65, 78, 67>>)
          [] lvl = FatalLevel -> Tag(49, <<70, 65, 84, 65>>)
          [] OTHER            -> FormatInt(lvl, 10))

addLevel(final, lvl) ==
    appendBytes(final,
        CASE lvl = DebugLevel -> Tag(50, <<68, 69, 66, 71>>)
          [] lvl = InfoLevel  -> Tag(52, <<73, 78, 70, 79>>)
          [] lvl = WarnLevel  -> Tag(51, <<87, 65, 82, 78>>)
          [] lvl = ErrorLevel -> Tag(49, <<69, 82, 82, 79>>)
          [] lvl = PanicLevel -> Tag(49, <<80, 65, 78, 67>>)
          [] lvl = FatalLevel -> Tag(49, <<70, 65, 84, 65>>)
          [] OTHER            -> FormatInt(lvl, 10))

addTime(enc, final, t) ==
    IF enc.timeFmt = <<>> THEN final
    ELSE appendBytes(appendBytes(final, SP), AppendFormat(t, enc.timeFmt))

\* a padding that counts bytes
PadMessage_byBytes(msg) == msg \o Repeat(32, 25 - Len(msg))

\* fmt.Sprintf("%-25s", msg): padded on the right to 25 runes
PadMessage(msg) == msg \o Repeat(32, 25 - RuneCount(msg))

\* an addMessage that writes the separator before it tests the message
addMessage_straySpace(final, msg) ==
    appendBytes(appendBytes(final, SP), IF msg # <<>> THEN PadMessage(msg) ELSE <<>>)

addMessage(final, msg) ==
    IF msg # <<>> THEN appendBytes(appendBytes(final, SP), PadMessage(msg)) ELSE final

\* WriteEntry's assembly of the line in the instance taken from the pool,
\* up to and including the trailing newline
Assemble(enc, pooled, msg, lvl, t) ==
    LET f3 == addMessage(addTime(enc, addLevel(truncate(pooled), lvl), t), msg)
        f4 == IF Len(enc.bytes) > 0 THEN appendBytes(appendBytes(f3, SP), enc.bytes) ELSE f3
    IN appendBytes(f4, NL)

(***************************************************************************)
(* Errors.  Nil is the nil error.                                          *)
(***************************************************************************)
Nil == "nil"
ErrNilSink == "NIL SINK ERR - wut"
ErrIncompleteWrite == "incomplete write"

\* a WriteEntry that compares the count before it looks at the error
WriteEntryResult_countFirst(n, err, expectedBytes) ==
    IF n # expectedBytes THEN ErrIncompleteWrite ELSE err

\* a WriteEntry that trusts a write that reported no error
WriteEntryResult_ignoreCount(n, err, expectedBytes) == err

\* WriteEntry's result from what sink.Write returned
WriteEntryResult(n, err, expectedBytes) ==
    IF err # Nil THEN err
    ELSE IF n # expectedBytes THEN ErrIncompleteWrite
    ELSE Nil

\* AddMarshaler's result from what obj.MarshalLog returned
AddMarshalerResult(err) == err

(***************************************************************************)
(* Bounds and inputs                                                       *)
(***************************************************************************)
\* For each specification: the number of instances textPool.New may make,
\* the bound on the bytes of all instances under which fields are added,
\* and the number of textPool.Get calls.
NumInst == 2
MaxBytes == 16
MaxGets == 4
CloneInst == 3
CloneBytes == 29
CloneGets == 3
NestBytes == 30
NestInst == 2
NestGets == 3
KindsInst == 2
KindsBytes == 16
KindsGets == 3
ConcInst == 4
ConcGets == 4
\* SpecConc: an encoder takes fields while it is shorter than ConcBytes
ConcBytes == 15
ConcTotal == 200
\* how deep AddMarshaler calls nest
MaxDepth == 2
ColorInst == 1
ColorBytes == 16
ColorGets == 1
RenderInst == 2
RenderBytes == 16
RenderGets == 2
LevelInst == 4
LevelBytes == 19
LevelGets == 4
\* SpecTwin: TwinGets calls of textPool.Get in all, TwinRun of them kept for
\* the two runs; an encoder takes fields while shorter than TwinLen;
\* TwinBytes is room for all of them
TwinInst == 4
TwinBytes == 200
TwinGets == 6
TwinRun == 4
TwinLen == 16

\* the instances of each specification; Inst holds them all
SInst == 1..NumInst
NInst == 1..NestInst
KInst == 1..KindsInst
CInst == 1..ConcInst
QInst == 1..CloneInst
ColInst == 1..ColorInst
RInst == 1..RenderInst
LInst == 1..LevelInst
TInst == 1..TwinInst
Inst == SInst \cup NInst \cup KInst \cup CInst \cup QInst \cup ColInst \cup RInst \cup LInst \cup TInst
Threads == {1, 2}
Main == CHOOSE t \in Threads : \A u \in Threads : t <= u
\* no instance: a nil *textEncoder
NoInst == 0

KeyK == <<107>>
Keys == {KeyK}
\* keys of SpecColor: the empty key, "k", "F", "ab" and the byte 0xff
ColorKeys == {<<>>, KeyK, <<70>>, <<97, 98>>, <<255>>}
Strings == {<<118>>}
Bools == {TRUE}
Int64s == {-12}
Uint64s == {255}
Floats == {[num |-> -5, exp2 |-> 2]}
Objects == {[kind |-> "nil", v |-> 0]}
CallbackErrors == {Nil, "E1"}
NilSink == "nil sink"
Sinks == {NilSink, "sink"}
\* what sink.Write may report: the byte count, as its difference from the
\* length it was given, and the error
WriteOutcomes ==
    {[dn |-> 0, err |-> Nil], [dn |-> -1, err |-> Nil], [dn |-> 1, err |-> Nil],
     [dn |-> 0, err |-> "EIO"], [dn |-> -1, err |-> "EIO"]}
\* a sink that takes the whole line or one byte less
ConcOutcomes == {o \in WriteOutcomes : o.err = Nil /\ o.dn <= 0}
Messages == {<<109>>}
Levels == {InfoLevel}
Times == {[year |-> 2016, month |-> 7, day |-> 9, hour |-> 13, min |-> 5, sec |-> 30]}
OptionLists == {<<TextNoTime>>}
\* inputs of SpecRender.  The layout "15:04"; no option, one option, and
\* two options in either order; the messages "", "m", 24, 25 and 26 letters,
\* the two-byte character U+00E9, a stray continuation byte and an encoding
\* cut short; a full write and a short one
Clock == <<49, 53, 58, 48, 52>>
RenderOptions ==
    {<<>>, <<TextNoTime>>, <<TextTimeFormat(Clock)>>,
     <<TextNoTime, TextTimeFormat(Clock)>>, <<TextTimeFormat(Clock), TextNoTime>>}
RenderMessages ==
    {<<>>, <<109>>, Repeat(97, 24), Repeat(97, 25), Repeat(97, 26), <<195, 169>>,
     <<128>>, <<226, 130>>}
RenderLevels == {InfoLevel, ErrorLevel, -12, -2, 7}
\* options of SpecClone: the layout "15:04", which no new instance holds
CloneOptions == {<<TextTimeFormat(Clock)>>}
\* options of the two runs of SpecTwin: none, and a layout
TwinOptions == {<<>>, <<TextTimeFormat(Clock)>>}
\* inputs of SpecLevels: the six levels zap defines and four it does not
Recognized == {DebugLevel, InfoLevel, WarnLevel, ErrorLevel, PanicLevel, FatalLevel}
AllLevels == Recognized \cup {-5, -2, 7, 12}

(***************************************************************************)
(* State                                                                   *)
(***************************************************************************)
VARIABLES
    inst,      \* inst[i]: the textEncoder value of instance i
    made,      \* the instances textPool.New has allocated
    pool,      \* pool[i]: how many times instance i is in textPool
    held,      \* held[t]: the encoders thread t got and has not freed
    stack,     \* stack[t]: thread t's AddMarshaler calls awaiting MarshalLog
    call,      \* call[t]: thread t's WriteEntry call, in progress or just returned
    ret,       \* ret[t]: the error thread t's last call returned (Nil: none)
    last,      \* last[t]: the call thread t made last
    lastOpen,  \* lastOpen[i]: length of inst[i].bytes just after its last frame '{'
    cloneOf,   \* cloneOf[i]: the live encoder instance i was cloned from
    limit,     \* the bound on the bytes of all instances under which fields are added
    gets,      \* how many more times the threads call textPool.Get
    replay     \* SpecTwin: the calls one run has made and the other has yet to
               \* make, and the encoders of the two runs that correspond

vars == <<inst, made, pool, held, stack, call, ret, last, lastOpen, cloneOf, limit, gets, replay>>

NoTime == [year |-> 0, month |-> 0, day |-> 0, hour |-> 0, min |-> 0, sec |-> 0]

Idle == [pc |-> "idle", enc |-> NoInst, final |-> NoInst,
         msg |-> <<>>, lvl |-> 0, tm |-> NoTime, before |-> NewInstance,
         expectedBytes |-> 0, sunk |-> <<>>, writes |-> 0, n |-> 0, err |-> Nil]

NoCall == [op |-> "none", e |-> NoInst, other |-> NoInst, key |-> <<>>,
           start |-> 0, open |-> 0, err |-> Nil, opts |-> <<>>]

\* no call to repeat, no encoders paired
NoReplay == [todo |-> <<>>, pairs |-> {}]

InitWith(lim, g) ==
    /\ inst = [i \in Inst |-> NewInstance]
    /\ made = {}
    /\ pool = [i \in Inst |-> 0]
    /\ held = [t \in Threads |-> {}]
    /\ stack = [t \in Threads |-> <<>>]
    /\ call = [t \in Threads |-> Idle]
    /\ ret = [t \in Threads |-> Nil]
    /\ last = [t \in Threads |-> NoCall]
    /\ lastOpen = [i \in Inst |-> 0]
    /\ cloneOf = [i \in Inst |-> NoInst]
    /\ limit = lim
    /\ gets = g
    /\ replay = NoReplay

Init == InitWith(MaxBytes, MaxGets)

(***************************************************************************)
(* textPool (sync.Pool): Get hands out a pooled instance, removing it, or  *)
(* a new one from New; Put adds the instance.                              *)
(***************************************************************************)
Fresh(i) == i \notin made /\ \A j \in Inst \ made : i <= j

CanGet(p, i) == p[i] > 0 \/ Fresh(i)

\* a Get that leaves the instance in the pool
Get_keep(p, i) == p

Get(p, i) == IF p[i] > 0 THEN [p EXCEPT ![i] = @ - 1] ELSE p

Put(p, i) == [p EXCEPT ![i] = @ + 1]

\* the value behind the pointer Get returned
Got(i) == IF i \in made THEN inst[i] ELSE NewInstance

InFrame(t, e) == \E k \in 1..Len(stack[t]) : stack[t][k].enc = e

RECURSIVE SumLen(_)
SumLen(S) ==
    IF S = {} THEN 0
    ELSE LET i == CHOOSE x \in S : TRUE IN Len(inst[i].bytes) + SumLen(S \ {i})

\* bytes are written only while the bytes of all instances are below the
\* bound: a field, and a line assembled in f beside the other instances
Room == SumLen(made) < limit

RoomBeside(f) == SumLen(made \ {f}) < limit

\* thread t is in no WriteEntry call and holds e
Running(t, e) == call[t].pc \in {"idle", "returned"} /\ e \in held[t]

\* thread t's call returns err; l describes the call
Returns(t, err, l) ==
    /\ ret' = [ret EXCEPT ![t] = err]
    /\ last' = [last EXCEPT ![t] = l]
    /\ call' = [call EXCEPT ![t] = Idle]

(***************************************************************************)
(* Calls.  t is the calling thread, e the receiver.                        *)
(***************************************************************************)
Called(op, e) == [NoCall EXCEPT !.op = op, !.e = e]

CallNewColorEncoder(t, i, options) ==
    /\ call[t].pc \in {"idle", "returned"}
    /\ gets > 0
    /\ CanGet(pool, i)
    /\ pool' = Get(pool, i)
    /\ gets' = gets - 1
    /\ made' = made \cup {i}
    /\ inst' = [inst EXCEPT ![i] = NewColorEncoder(Got(i), options)]
    /\ held' = [held EXCEPT ![t] = @ \cup {i}]
    /\ lastOpen' = [lastOpen EXCEPT ![i] = 0]
    /\ cloneOf' = [cloneOf EXCEPT ![i] = NoInst]
    /\ Returns(t, Nil, [Called("NewColorEncoder", i) EXCEPT !.opts = options])
    /\ UNCHANGED <<stack, limit>>

\* Free, by a caller that is done with e
CallFree(t, e) ==
    /\ Running(t, e)
    /\ ~InFrame(t, e)
    /\ pool' = Put(pool, e)
    /\ held' = [held EXCEPT ![t] = @ \ {e}]
    /\ cloneOf' = [i \in Inst |-> IF i = e \/ cloneOf[i] = e THEN NoInst ELSE cloneOf[i]]
    /\ Returns(t, Nil, Called("Free", e))
    /\ UNCHANGED <<inst, made, stack, lastOpen, limit, gets>>

\* the state change of a call that only writes a field into e
Accumulate(t, e, op, key, after) ==
    /\ Running(t, e)
    /\ Room
    /\ inst' = [inst EXCEPT ![e] = after]
    /\ Returns(t, Nil, [Called(op, e) EXCEPT !.key = key, !.start = Len(inst[e].bytes)])
    /\ UNCHANGED <<made, pool, held, stack, lastOpen, cloneOf, limit, gets>>

CallAddString(t, e, key, val) ==
    Accumulate(t, e, "AddString", key, AddString(inst[e], key, val))

CallAddBool(t, e, key, val) ==
    Accumulate(t, e, "AddBool", key, AddBool(inst[e], key, val))

CallAddInt(t, e, key, val) ==
    Accumulate(t, e, "AddInt", key, AddInt(inst[e], key, val))

CallAddInt64(t, e, key, val) ==
    Accumulate(t, e, "AddInt64", key, AddInt64(inst[e], key, val))

CallAddUint(t, e, key, val) ==
    Accumulate(t, e, "AddUint", key, AddUint(inst[e], key, val))

CallAddUint64(t, e, key, val) ==
    Accumulate(t, e, "AddUint64", key, AddUint64(inst[e], key, val))

CallAddUintptr(t, e, key, val) ==
    Accumulate(t, e, "AddUintptr", key, AddUintptr(inst[e], key, val))

CallAddFloat64(t, e, key, val) ==
    Accumulate(t, e, "AddFloat64", key, AddFloat64(inst[e], key, val))

CallAddObject(t, e, key, obj) ==
    Accumulate(t, e, "AddObject", key, AddObject(inst[e], key, obj))

\* AddMarshaler, lines 85-88: the key and '{' are written and obj.MarshalLog
\* is entered; the callback's own calls are this thread's next steps
CallAddMarshaler(t, e, key) ==
    /\ Running(t, e)
    /\ Room
    /\ Len(stack[t]) < MaxDepth
    /\ LET after == AddMarshalerEnter(inst[e], key) IN
        /\ inst' = [inst EXCEPT ![e] = after]
        /\ stack' = [stack EXCEPT ![t] = Append(@,
                        [enc |-> e, key |-> key, start |-> Len(inst[e].bytes),
                         open |-> Len(after.bytes)])]
        /\ lastOpen' = [lastOpen EXCEPT ![e] = Len(after.bytes)]
        /\ Returns(t, Nil, [Called("MarshalLog", e) EXCEPT
                               !.key = key, !.start = Len(inst[e].bytes),
                               !.open = Len(after.bytes)])
    /\ UNCHANGED <<made, pool, held, cloneOf, limit, gets>>

\* an AddMarshaler that returns the callback's error at once
ReturnAddMarshaler_earlyReturn(t, err) ==
    /\ call[t].pc \in {"idle", "returned"}
    /\ stack[t] # <<>>
    /\ LET fr == stack[t][Len(stack[t])] IN
        /\ inst' = [inst EXCEPT ![fr.enc] = IF err # Nil THEN @ ELSE AddMarshalerLeave(@)]
        /\ Returns(t, AddMarshalerResult(err),
                   [Called("AddMarshaler", fr.enc) EXCEPT
                       !.key = fr.key, !.start = fr.start, !.open = fr.open, !.err = err])
    /\ stack' = [stack EXCEPT ![t] = SubSeq(@, 1, Len(@) - 1)]
    /\ UNCHANGED <<made, pool, held, lastOpen, cloneOf, limit, gets>>

\* AddMarshaler, lines 88-91: obj.MarshalLog returns err
ReturnAddMarshaler(t, err) ==
    /\ call[t].pc \in {"idle", "returned"}
    /\ stack[t] # <<>>
    /\ LET fr == stack[t][Len(stack[t])] IN
        /\ inst' = [inst EXCEPT ![fr.enc] = AddMarshalerLeave(@)]
        /\ Returns(t, AddMarshalerResult(err),
                   [Called("AddMarshaler", fr.enc) EXCEPT
                       !.key = fr.key, !.start = fr.start, !.open = fr.open, !.err = err])
    /\ stack' = [stack EXCEPT ![t] = SubSeq(@, 1, Len(@) - 1)]
    /\ UNCHANGED <<made, pool, held, lastOpen, cloneOf, limit, gets>>

CallClone(t, e, c) ==
    /\ Running(t, e)
    /\ SumLen(made \ {c}) + Len(inst[e].bytes) <= limit
    /\ gets > 0
    /\ CanGet(pool, c)
    /\ pool' = Get(pool, c)
    /\ gets' = gets - 1
    /\ made' = made \cup {c}
    /\ inst' = [inst EXCEPT ![c] = Clone(Got(c), inst[e])]
    /\ held' = [held EXCEPT ![t] = @ \cup {c}]
    /\ lastOpen' = [lastOpen EXCEPT ![c] = lastOpen[e]]
    /\ cloneOf' = [cloneOf EXCEPT ![c] = e]
    /\ Returns(t, Nil, [Called("Clone", e) EXCEPT !.other = c])
    /\ UNCHANGED <<stack, limit>>

\* WriteEntry from the sink test on, lines 109-126
WriteEntryBody(t, e, sink, msg, lvl, tm, f) ==
    IF sink = NilSink
    THEN /\ Returns(t, ErrNilSink, Called("WriteEntryNilSink", e))
         /\ UNCHANGED <<inst, made, pool, held, stack, lastOpen, cloneOf, limit, gets>>
    ELSE /\ pool' = Get(pool, f)
         /\ gets' = gets - 1
         /\ made' = made \cup {f}
         /\ LET final == Assemble(inst[e], Got(f), msg, lvl, tm) IN
             /\ inst' = [inst EXCEPT ![f] = final]
             /\ call' = [call EXCEPT ![t] =
                   [Idle EXCEPT !.pc = "write", !.enc = e, !.final = f,
                                !.msg = msg, !.lvl = lvl, !.tm = tm,
                                !.before = inst[e],
                                !.expectedBytes = Len(final.bytes)]]
         /\ lastOpen' = [lastOpen EXCEPT ![f] = 0]
         /\ cloneOf' = [cloneOf EXCEPT ![f] = NoInst]
         /\ ret' = [ret EXCEPT ![t] = Nil]
         /\ last' = [last EXCEPT ![t] = [Called("WriteEntry", e) EXCEPT !.other = f]]
         /\ UNCHANGED <<held, stack, limit>>

\* a WriteEntry that takes the assembly buffer before it tests the sink
CallWriteEntry_acquireFirst(t, e, sink, msg, lvl, tm, f) ==
    /\ Running(t, e)
    /\ gets > 0
    /\ CanGet(pool, f)
    /\ RoomBeside(f)
    /\ IF sink = NilSink
       THEN /\ pool' = Get(pool, f)
            /\ gets' = gets - 1
            /\ made' = made \cup {f}
            /\ inst' = [inst EXCEPT ![f] = truncate(Got(f))]
            /\ Returns(t, ErrNilSink, Called("WriteEntryNilSink", e))
            /\ UNCHANGED <<held, stack, lastOpen, cloneOf, limit>>
       ELSE WriteEntryBody(t, e, sink, msg, lvl, tm, f)

\* WriteEntry, lines 109-126: up to handing final.bytes to sink.Write; f is
\* the instance textPool.Get returns
CallWriteEntry(t, e, sink, msg, lvl, tm, f) ==
    /\ Running(t, e)
    /\ sink # NilSink => gets > 0 /\ CanGet(pool, f) /\ RoomBeside(f)
    /\ WriteEntryBody(t, e, sink, msg, lvl, tm, f)

\* sink.Write(final.bytes): the sink takes the bytes and reports (n, err)
SinkWrite(t, out) ==
    /\ call[t].pc = "write"
    /\ LET p == inst[call[t].final].bytes IN
        call' = [call EXCEPT ![t].pc = "wrote", ![t].sunk = p,
                             ![t].writes = @ + 1,
                             ![t].n = Len(p) + out.dn, ![t].err = out.err]
    /\ UNCHANGED <<inst, made, pool, held, stack, ret, last, lastOpen, cloneOf, limit, gets>>

\* a WriteEntry that returns the sink's error before final.Free()
ReturnWriteEntry_leakOnError(t) ==
    /\ call[t].pc = "wrote"
    /\ pool' = IF call[t].err # Nil THEN pool ELSE Put(pool, call[t].final)
    /\ ret' = [ret EXCEPT ![t] =
                 WriteEntryResult(call[t].n, call[t].err, call[t].expectedBytes)]
    /\ call' = [call EXCEPT ![t].pc = "returned"]
    /\ UNCHANGED <<inst, made, held, stack, last, lastOpen, cloneOf, limit, gets>>

\* a WriteEntry that empties the encoder it has written
ReturnWriteEntry_resetEnc(t) ==
    /\ call[t].pc = "wrote"
    /\ pool' = Put(pool, call[t].final)
    /\ inst' = [inst EXCEPT ![call[t].enc] = truncate(@)]
    /\ ret' = [ret EXCEPT ![t] =
                 WriteEntryResult(call[t].n, call[t].err, call[t].expectedBytes)]
    /\ call' = [call EXCEPT ![t].pc = "returned"]
    /\ UNCHANGED <<made, held, stack, last, lastOpen, cloneOf, limit, gets>>

\* a WriteEntry that also puts the encoder it was called on into textPool
ReturnWriteEntry_freeBoth(t) ==
    /\ call[t].pc = "wrote"
    /\ pool' = Put(Put(pool, call[t].final), call[t].enc)
    /\ held' = [held EXCEPT ![t] = @ \ {call[t].enc}]
    /\ ret' = [ret EXCEPT ![t] =
                 WriteEntryResult(call[t].n, call[t].err, call[t].expectedBytes)]
    /\ call' = [call EXCEPT ![t].pc = "returned"]
    /\ UNCHANGED <<inst, made, stack, last, lastOpen, cloneOf, limit, gets>>

\* WriteEntry, lines 127-134
ReturnWriteEntry(t) ==
    /\ call[t].pc = "wrote"
    /\ pool' = Put(pool, call[t].final)
    /\ ret' = [ret EXCEPT ![t] =
                 WriteEntryResult(call[t].n, call[t].err, call[t].expectedBytes)]
    /\ call' = [call EXCEPT ![t].pc = "returned"]
    /\ UNCHANGED <<inst, made, held, stack, last, lastOpen, cloneOf, limit, gets>>

(***************************************************************************)
(* Spec: one thread; encoders are made, cloned, written with WriteEntry    *)
(* and freed, and take strings and nested objects.                         *)
(***************************************************************************)
Next ==
    \/ \E i \in SInst, o \in OptionLists : CallNewColorEncoder(Main, i, o) /\ UNCHANGED replay
    \/ \E e \in SInst : CallFree(Main, e) /\ UNCHANGED replay
    \/ \E e \in SInst, k \in Keys, v \in Strings : CallAddString(Main, e, k, v) /\ UNCHANGED replay
    \/ \E e \in SInst, k \in Keys : CallAddMarshaler(Main, e, k) /\ UNCHANGED replay
    \/ \E err \in CallbackErrors : ReturnAddMarshaler(Main, err) /\ UNCHANGED replay
    \/ \E e \in SInst, c \in SInst : CallClone(Main, e, c) /\ UNCHANGED replay
    \/ \E e \in SInst, s \in Sinks, m \in Messages, l \in Levels, tm \in Times, f \in SInst :
          CallWriteEntry(Main, e, s, m, l, tm, f) /\ UNCHANGED replay
    \/ \E out \in WriteOutcomes : SinkWrite(Main, out) /\ UNCHANGED replay
    \/ ReturnWriteEntry(Main) /\ UNCHANGED replay

Spec == Init /\ [][Next]_vars

(***************************************************************************)
(* SpecNest: one thread, no WriteEntry, room for three keys.               *)
(***************************************************************************)
InitNest == InitWith(NestBytes, NestGets)

NextNest ==
    \/ \E i \in NInst, o \in OptionLists : CallNewColorEncoder(Main, i, o) /\ UNCHANGED replay
    \/ \E e \in NInst : CallFree(Main, e) /\ UNCHANGED replay
    \/ \E e \in NInst, k \in Keys, v \in Strings : CallAddString(Main, e, k, v) /\ UNCHANGED replay
    \/ \E e \in NInst, k \in Keys : CallAddMarshaler(Main, e, k) /\ UNCHANGED replay
    \/ \E err \in CallbackErrors : ReturnAddMarshaler(Main, err) /\ UNCHANGED replay
    \/ \E e \in NInst, c \in NInst : CallClone(Main, e, c) /\ UNCHANGED replay

SpecNest == InitNest /\ [][NextNest]_vars

(***************************************************************************)
(* SpecKinds: one thread, every call and every kind of field.              *)
(***************************************************************************)
NextKinds ==
    \/ \E i \in KInst, o \in OptionLists : CallNewColorEncoder(Main, i, o) /\ UNCHANGED replay
    \/ \E e \in KInst : CallFree(Main, e) /\ UNCHANGED replay
    \/ \E e \in KInst, k \in Keys, v \in Strings : CallAddString(Main, e, k, v) /\ UNCHANGED replay
    \/ \E e \in KInst, k \in Keys, v \in Bools : CallAddBool(Main, e, k, v) /\ UNCHANGED replay
    \/ \E e \in KInst, k \in Keys, v \in Int64s : CallAddInt(Main, e, k, v) /\ UNCHANGED replay
    \/ \E e \in KInst, k \in Keys, v \in Int64s : CallAddInt64(Main, e, k, v) /\ UNCHANGED replay
    \/ \E e \in KInst, k \in Keys, v \in Uint64s : CallAddUint(Main, e, k, v) /\ UNCHANGED replay
    \/ \E e \in KInst, k \in Keys, v \in Uint64s : CallAddUint64(Main, e, k, v) /\ UNCHANGED replay
    \/ \E e \in KInst, k \in Keys, v \in Uint64s : CallAddUintptr(Main, e, k, v) /\ UNCHANGED replay
    \/ \E e \in KInst, k \in Keys, v \in Floats : CallAddFloat64(Main, e, k, v) /\ UNCHANGED replay
    \/ \E e \in KInst, k \in Keys, v \in Objects : CallAddObject(Main, e, k, v) /\ UNCHANGED replay
    \/ \E e \in KInst, k \in Keys : CallAddMarshaler(Main, e, k) /\ UNCHANGED replay
    \/ \E err \in CallbackErrors : ReturnAddMarshaler(Main, err) /\ UNCHANGED replay
    \/ \E e \in KInst, c \in KInst : CallClone(Main, e, c) /\ UNCHANGED replay
    \/ \E e \in KInst, s \in Sinks, m \in Messages, l \in Levels, tm \in Times, f \in KInst :
          CallWriteEntry(Main, e, s, m, l, tm, f) /\ UNCHANGED replay
    \/ \E out \in WriteOutcomes : SinkWrite(Main, out) /\ UNCHANGED replay
    \/ ReturnWriteEntry(Main) /\ UNCHANGED replay

InitKinds == InitWith(KindsBytes, KindsGets)

SpecKinds == InitKinds /\ [][NextKinds]_vars

(***************************************************************************)
(* SpecClone: one thread; encoders made with the layout "15:04" hold       *)
(* fields and are cloned, into new instances (whose layout is empty) and   *)
(* into used ones; the clone and its source take more fields, are written  *)
(* and are freed.  The sink takes the whole line or one byte less.         *)
(***************************************************************************)
InitClone == InitWith(CloneBytes, CloneGets)

NextClone ==
    \/ \E i \in QInst, o \in CloneOptions : CallNewColorEncoder(Main, i, o) /\ UNCHANGED replay
    \/ \E e \in held[Main] : CallFree(Main, e) /\ UNCHANGED replay
    \/ \E e \in held[Main], k \in Keys, v \in Strings : CallAddString(Main, e, k, v) /\ UNCHANGED replay
    \/ \E e \in held[Main], k \in Keys : CallAddMarshaler(Main, e, k) /\ UNCHANGED replay
    \/ \E err \in CallbackErrors : ReturnAddMarshaler(Main, err) /\ UNCHANGED replay
    \/ \E e \in held[Main], c \in QInst : CallClone(Main, e, c) /\ UNCHANGED replay
    \/ \E e \in held[Main], m \in Messages, l \in Levels, tm \in Times, f \in QInst :
          CallWriteEntry(Main, e, "sink", m, l, tm, f) /\ UNCHANGED replay
    \/ \E out \in ConcOutcomes : SinkWrite(Main, out) /\ UNCHANGED replay
    \/ ReturnWriteEntry(Main) /\ UNCHANGED replay

SpecClone == InitClone /\ [][NextClone]_vars

(***************************************************************************)
(* SpecConc: two threads sharing textPool, each making encoders, cloning   *)
(* them, adding fields, rendering and freeing, in any order and in any     *)
(* interleaving of their steps.  A thread logs its own number, as a field  *)
(* and as the message, so that the lines of the two differ; an encoder     *)
(* shorter than ConcBytes takes a field; the sink takes the whole line or  *)
(* one byte less.  Fields are plain: nested objects are SpecNest's.        *)
(* ConcTotal is room for all lines.                                        *)
(***************************************************************************)
InitConc == InitWith(ConcTotal, ConcGets)

\* the number thread t logs: a digit no escape sequence holds
Mark(t) == 7 + t

MessageOf(t) == FormatInt(Mark(t), 10)

NextConc ==
    \E t \in Threads :
        \/ \E i \in CInst, o \in OptionLists : CallNewColorEncoder(t, i, o) /\ UNCHANGED replay
        \/ \E e \in held[t] : CallFree(t, e) /\ UNCHANGED replay
        \/ \E e \in held[t], k \in Keys :
              Len(inst[e].bytes) < ConcBytes /\ CallAddInt(t, e, k, Mark(t)) /\ UNCHANGED replay
        \/ \E e \in held[t], c \in CInst : CallClone(t, e, c) /\ UNCHANGED replay
        \/ \E e \in held[t], f \in CInst, l \in Levels, tm \in Times :
              CallWriteEntry(t, e, "sink", MessageOf(t), l, tm, f) /\ UNCHANGED replay
        \/ \E out \in ConcOutcomes : SinkWrite(t, out) /\ UNCHANGED replay
        \/ ReturnWriteEntry(t) /\ UNCHANGED replay

SpecConc == InitConc /\ [][NextConc]_vars

(***************************************************************************)
(* SpecColor: one thread; fields of every kind under the keys of           *)
(* ColorKeys, at the start of a buffer, after a field and inside frames.   *)
(* Encoders are made and freed, not cloned.                                *)
(***************************************************************************)
InitColor == InitWith(ColorBytes, ColorGets)

NextColor ==
    \/ \E i \in ColInst, o \in OptionLists : CallNewColorEncoder(Main, i, o) /\ UNCHANGED replay
    \/ \E e \in ColInst : CallFree(Main, e) /\ UNCHANGED replay
    \/ \E e \in ColInst, k \in ColorKeys, v \in Strings : CallAddString(Main, e, k, v) /\ UNCHANGED replay
    \/ \E e \in ColInst, k \in ColorKeys, v \in Bools : CallAddBool(Main, e, k, v) /\ UNCHANGED replay
    \/ \E e \in ColInst, k \in ColorKeys, v \in Int64s : CallAddInt(Main, e, k, v) /\ UNCHANGED replay
    \/ \E e \in ColInst, k \in ColorKeys, v \in Int64s : CallAddInt64(Main, e, k, v) /\ UNCHANGED replay
    \/ \E e \in ColInst, k \in ColorKeys, v \in Uint64s : CallAddUint(Main, e, k, v) /\ UNCHANGED replay
    \/ \E e \in ColInst, k \in ColorKeys, v \in Uint64s : CallAddUint64(Main, e, k, v) /\ UNCHANGED replay
    \/ \E e \in ColInst, k \in ColorKeys, v \in Uint64s : CallAddUintptr(Main, e, k, v) /\ UNCHANGED replay
    \/ \E e \in ColInst, k \in ColorKeys, v \in Floats : CallAddFloat64(Main, e, k, v) /\ UNCHANGED replay
    \/ \E e \in ColInst, k \in ColorKeys, v \in Objects : CallAddObject(Main, e, k, v) /\ UNCHANGED replay
    \/ \E e \in ColInst, k \in ColorKeys : CallAddMarshaler(Main, e, k) /\ UNCHANGED replay
    \/ \E err \in CallbackErrors : ReturnAddMarshaler(Main, err) /\ UNCHANGED replay

SpecColor == InitColor /\ [][NextColor]_vars

(***************************************************************************)
(* SpecRender: one thread renders lines with and without a time layout, a  *)
(* message and fields; its encoder is a new instance or a reused one.      *)
(***************************************************************************)
InitRender == InitWith(RenderBytes, RenderGets)

NextRender ==
    \/ \E i \in RInst, o \in RenderOptions : CallNewColorEncoder(Main, i, o) /\ UNCHANGED replay
    \/ \E e \in RInst : CallFree(Main, e) /\ UNCHANGED replay
    \/ \E e \in RInst, k \in Keys, v \in Strings : CallAddString(Main, e, k, v) /\ UNCHANGED replay
    \/ \E e \in RInst, m \in RenderMessages, l \in RenderLevels, tm \in Times, f \in RInst :
          CallWriteEntry(Main, e, "sink", m, l, tm, f) /\ UNCHANGED replay
    \/ \E out \in ConcOutcomes : SinkWrite(Main, out) /\ UNCHANGED replay
    \/ ReturnWriteEntry(Main) /\ UNCHANGED replay

SpecRender == InitRender /\ [][NextRender]_vars

(***************************************************************************)
(* SpecLevels: two threads each make an encoder and render one line, at    *)
(* any level.                                                              *)
(***************************************************************************)
InitLevels == InitWith(LevelBytes, LevelGets)

NextLevels ==
    \E t \in Threads :
        \/ \E i \in LInst, o \in OptionLists : held[t] = {} /\ CallNewColorEncoder(t, i, o) /\ UNCHANGED replay
        \/ \E e \in LInst, l \in AllLevels, tm \in Times, f \in LInst :
              call[t].pc = "idle" /\ CallWriteEntry(t, e, "sink", <<>>, l, tm, f) /\ UNCHANGED replay
        \/ \E out \in ConcOutcomes : out.dn = 0 /\ SinkWrite(t, out) /\ UNCHANGED replay
        \/ ReturnWriteEntry(t) /\ UNCHANGED replay

SpecLevels == InitLevels /\ [][NextLevels]_vars

(***************************************************************************)
(* SpecTwin: two runs of one sequence of calls, in one pool.  First the    *)
(* thread Twin alone makes encoders, fills them, clones them, renders and  *)
(* frees them, which leaves used instances in textPool.  Then Main makes   *)
(* calls and Twin makes the same calls with the same arguments, each on    *)
(* the instances textPool.Get hands it, used or new.  replay.todo holds    *)
(* the calls Main has made and Twin has not; Main makes its next call      *)
(* when Twin has returned from the last.  The steps of the two threads     *)
(* interleave as the steps of SpecConc do.                                 *)
(***************************************************************************)
Twin == CHOOSE t \in Threads : t # Main

InitTwin == InitWith(TwinBytes, TwinGets)

\* the runs have not begun
Before == replay.todo = <<>> /\ replay.pairs = {}

\* Twin has made every call Main has made and has returned from it
Caught == replay.todo = <<>> /\ call[Twin].pc \in {"idle", "returned"}

\* Main may make a call: Twin has caught up; when the runs begin Twin holds
\* nothing of its own and TwinRun calls of textPool.Get are left
Lead == Caught /\ gets <= TwinRun /\ (Before => held[Twin] = {} /\ stack[Twin] = <<>>)

\* Main has made the call its marker describes
Queue == replay' = [replay EXCEPT !.todo = Append(@, last'[Main])]

\* Main's call returned the encoder instance a
QueueNew(a) ==
    replay' = [todo |-> Append(replay.todo, last'[Main]),
               pairs |-> {p \in replay.pairs : p[1] # a} \cup {<<a, NoInst>>}]

\* the call Twin has to make next is op
Next1(op) == replay.todo # <<>> /\ Head(replay.todo).op = op

\* Twin's encoder that corresponds to Main's encoder a
Map(a) == CHOOSE b \in Inst \cup {NoInst} : <<a, b>> \in replay.pairs

\* Twin has made the call
Done == replay' = [replay EXCEPT !.todo = Tail(@)]

\* Twin's call returned the instance b for Main's a
DoneNew(a, b) ==
    replay' = [todo |-> Tail(replay.todo),
               pairs |-> {p \in replay.pairs : p[1] # a} \cup {<<a, b>>}]

\* Twin has freed its encoder for Main's a
DoneFree(a) ==
    replay' = [todo |-> Tail(replay.todo),
               pairs |-> {p \in replay.pairs : p[1] # a}]

\* an encoder takes a field while it is shorter than TwinLen
Short(e) == Len(inst[e].bytes) < TwinLen

\* an encoder without fields: before the runs an encoder takes one field,
\* and Main calls WriteEntry with a nil sink on an encoder without fields
Empty(e) == inst[e].bytes = <<>>

\* Twin is alone: the runs have not begun and Main holds nothing
Alone == Before /\ held[Main] = {}

\* the call Twin has to make next
Todo == Head(replay.todo)

NextTwin ==
    \/ \E i \in TInst, o \in OptionLists :
          Alone /\ gets > TwinRun /\ CallNewColorEncoder(Twin, i, o) /\ UNCHANGED replay
    \/ \E e \in held[Twin], k \in Keys, v \in Strings :
          Alone /\ Empty(e) /\ CallAddString(Twin, e, k, v) /\ UNCHANGED replay
    \/ \E e \in held[Twin], k \in Keys :
          Alone /\ Empty(e) /\ CallAddMarshaler(Twin, e, k) /\ UNCHANGED replay
    \/ \E err \in CallbackErrors : Alone /\ ReturnAddMarshaler(Twin, err) /\ UNCHANGED replay
    \/ \E e \in held[Twin], c \in TInst :
          Alone /\ gets > TwinRun /\ CallClone(Twin, e, c) /\ UNCHANGED replay
    \/ \E e \in held[Twin] : Alone /\ CallFree(Twin, e) /\ UNCHANGED replay
    \/ \E i \in TInst, o \in TwinOptions :
          Lead /\ gets >= 2 /\ CallNewColorEncoder(Main, i, o) /\ QueueNew(i)
    \/ \E e \in held[Main], k \in Keys, v \in Strings :
          Lead /\ Short(e) /\ CallAddString(Main, e, k, v) /\ Queue
    \/ \E e \in held[Main], k \in Keys :
          Lead /\ Short(e) /\ CallAddMarshaler(Main, e, k) /\ Queue
    \/ \E err \in CallbackErrors : Lead /\ ReturnAddMarshaler(Main, err) /\ Queue
    \/ \E e \in held[Main], c \in TInst :
          Lead /\ gets >= 2 /\ CallClone(Main, e, c) /\ QueueNew(c)
    \/ \E e \in held[Main] : Lead /\ CallFree(Main, e) /\ Queue
    \/ \E e \in held[Main], m \in Messages, l \in Levels, tm \in Times, f \in TInst :
          Lead /\ gets >= 2 /\ CallWriteEntry(Main, e, "sink", m, l, tm, f) /\ Queue
    \/ \E e \in held[Main], m \in Messages, l \in Levels, tm \in Times :
          Lead /\ Empty(e) /\ CallWriteEntry(Main, e, NilSink, m, l, tm, NoInst) /\ Queue
    \/ \E i \in TInst :
          /\ Next1("NewColorEncoder")
          /\ CallNewColorEncoder(Twin, i, Todo.opts)
          /\ DoneNew(Todo.e, i)
    \/ \E v \in Strings :
          Next1("AddString") /\ CallAddString(Twin, Map(Todo.e), Todo.key, v) /\ Done
    \/ Next1("MarshalLog") /\ CallAddMarshaler(Twin, Map(Todo.e), Todo.key) /\ Done
    \/ Next1("AddMarshaler") /\ ReturnAddMarshaler(Twin, Todo.err) /\ Done
    \/ \E c \in TInst :
          Next1("Clone") /\ CallClone(Twin, Map(Todo.e), c) /\ DoneNew(Todo.other, c)
    \/ Next1("Free") /\ CallFree(Twin, Map(Todo.e)) /\ DoneFree(Todo.e)
    \/ \E f \in TInst :
          /\ Next1("WriteEntry")
          /\ CallWriteEntry(Twin, Map(Todo.e), "sink", call[Main].msg, call[Main].lvl,
                            call[Main].tm, f)
          /\ Done
    \/ \E m \in Messages, l \in Levels, tm \in Times :
          /\ Next1("WriteEntryNilSink")
          /\ CallWriteEntry(Twin, Map(Todo.e), NilSink, m, l, tm, NoInst)
          /\ Done
    \/ \E t \in Threads, out \in ConcOutcomes : SinkWrite(t, out) /\ UNCHANGED replay
    \/ \E t \in Threads : ReturnWriteEntry(t) /\ UNCHANGED replay

SpecTwin == InitTwin /\ [][NextTwin]_vars

(***************************************************************************)
(* Properties                                                              *)
(***************************************************************************)
\* how many borrowers hold instance i: callers that got it as an encoder and
\* WriteEntry calls that got it as their assembly buffer
Borrowers(i) ==
    Cardinality({t \in Threads : i \in held[t]})
    + Cardinality({t \in Threads : call[t].pc \in {"write", "wrote"} /\ call[t].final = i})

\* this step is a step of thread t
StepBy(t) == last'[t] # last[t] \/ call'[t] # call[t] \/ ret'[t] # ret[t]

\* the line WriteEntry call c has to write
LineOf(c) == Assemble(c.before, NewInstance, c.msg, c.lvl, c.tm).bytes

\* C1: every step that writes a key into an encoder a thread holds puts the
\* colored key directly after the old bytes when these are empty or end with
\* the '{' of a frame just opened, and after exactly one space otherwise
\* (after a value, after a frame's '}', inside or outside a frame).
C1_SeparatorRule ==
    [][\A t \in Threads, e \in Inst :
          (/\ e \in held[t]
           /\ inst'[e].bytes # inst[e].bytes
           /\ Len(stack'[t]) >= Len(stack[t]))
          => LET old == inst[e].bytes
                 new == inst'[e].bytes
                 n == Len(old)
                 first == n = 0 \/ lastOpen[e] = n
                 p == IF first THEN n ELSE n + 1
             IN /\ IsPrefix(old, new)
                /\ Len(new) > p
                /\ ~first => new[n + 1] = 32
                /\ \E k \in Keys :
                      /\ Len(new) >= p + Len(ColoredKey(k)) + 1
                      /\ SubSeq(new, p + 1, p + Len(ColoredKey(k)) + 1)
                            = ColoredKey(k) \o EQ
       ]_vars

\* C1 witness: inside an open frame, a key that is first in its frame
\* ('{' then the key's escape) and a key after a nested frame's '}', one
\* space between
C1_Witness ==
    \E e \in held[Main] :
        LET b == inst[e].bytes IN
        /\ stack[Main] # <<>>
        /\ Len(b) > 3
        /\ b[1] = 27
        /\ \E q \in 1..(Len(b) - 1) : b[q] = 123 /\ b[q + 1] = 27
        /\ \E q \in 1..(Len(b) - 2) : b[q] = 125 /\ b[q + 1] = 32 /\ b[q + 2] = 27

\* C2: a WriteEntry that has returned called sink.Write once, with the whole
\* line, newline included; it returned nil only if Write reported no error
\* and the line's length, and an error if Write reported no error and
\* another count.
C2_VerifiedWrite ==
    \A t \in Threads :
        call[t].pc = "returned" =>
            LET c == call[t] IN
            /\ c.writes = 1
            /\ c.sunk = LineOf(c)
            /\ Last(c.sunk) = 10
            /\ c.expectedBytes = Len(c.sunk)
            /\ (ret[t] = Nil => c.err = Nil /\ c.n = Len(c.sunk))
            /\ (c.err = Nil /\ c.n # Len(c.sunk) => ret[t] # Nil)

\* C2 witness: Write reported no error and one byte less; WriteEntry
\* returned the incomplete-write error
C2_Witness ==
    /\ call[Main].pc = "returned"
    /\ call[Main].err = Nil
    /\ call[Main].n < Len(call[Main].sunk)
    /\ ret[Main] = ErrIncompleteWrite

\* C3: while sink.Write is to come or has just returned, the assembly buffer
\* is not in textPool and no caller holds it; when WriteEntry has returned,
\* whatever Write reported, the buffer is in textPool once.
C3_AssemblyReleasedOnce ==
    \A t \in Threads :
        LET c == call[t] IN
        /\ c.pc \in {"write", "wrote"} =>
              /\ pool[c.final] = 0
              /\ \A u \in Threads : c.final \notin held[u]
        /\ c.pc = "returned" => pool[c.final] = 1

\* C3 witness: WriteEntry returned the sink's error and the buffer is back
C3_Witness ==
    /\ call[Main].pc = "returned"
    /\ call[Main].err # Nil
    /\ ret[Main] = call[Main].err
    /\ pool[call[Main].final] = 1

\* C4: a WriteEntry with a nil sink returns the nil-sink error in one step
\* that writes nothing to a sink, takes nothing from and puts nothing into
\* textPool and leaves every instance as it was.
C4_NilSink ==
    [][\A t \in Threads :
          (StepBy(t) /\ last'[t].op = "WriteEntryNilSink")
          => /\ ret'[t] = ErrNilSink
             /\ call'[t].pc = "idle"
             /\ call'[t].writes = 0
             /\ inst' = inst
             /\ pool' = pool
             /\ made' = made
             /\ gets' = gets
             /\ held' = held
       ]_vars

\* C4 witness: an encoder with fields has been given a nil sink
C4_Witness ==
    /\ last[Main].op = "WriteEntryNilSink"
    /\ ret[Main] = ErrNilSink
    /\ inst[last[Main].e].bytes # <<>>
    /\ last[Main].e \in held[Main]

\* C5: when MarshalLog returns an error, AddMarshaler returns that error;
\* the buffer is what it was when the callback failed, with the key and '{'
\* where AddMarshaler wrote them, and '}' appended; firstNested is false.
C5_CallbackError ==
    [][\A t \in Threads :
          (Len(stack'[t]) < Len(stack[t]) /\ last'[t].err # Nil)
          => LET fr == stack[t][Len(stack[t])]
                 old == inst[fr.enc].bytes
                 new == inst'[fr.enc].bytes
             IN /\ ret'[t] = last'[t].err
                /\ last'[t].op = "AddMarshaler"
                /\ new = old \o RBRACE
                /\ Len(old) >= fr.open
                /\ SubSeq(old, fr.start + 1, fr.open) \in
                      {ColoredKey(fr.key) \o EQ \o LBRACE,
                       SP \o ColoredKey(fr.key) \o EQ \o LBRACE}
                /\ ~inst'[fr.enc].firstNested
       ]_vars

\* C5 witness: the callback wrote a field and failed; AddMarshaler returned
\* its error and the buffer ends with '}'
C5_Witness ==
    /\ last[Main].op = "AddMarshaler"
    /\ last[Main].err = "E1"
    /\ ret[Main] = "E1"
    /\ Len(inst[last[Main].e].bytes) > last[Main].open + 1
    /\ Last(inst[last[Main].e].bytes) = 125

\* what holds when Clone has returned: the clone is another instance and
\* equals its source
C6_CloneCopies ==
    \A t \in Threads :
        last[t].op = "Clone" =>
            /\ last[t].other # last[t].e
            /\ {last[t].e, last[t].other} \subseteq held[t]
            /\ inst[last[t].other] = inst[last[t].e]

\* C6: when Clone has returned, the clone is another instance, with the
\* source's bytes, timeFmt and firstNested; and afterwards no call on the
\* clone changes the source or puts it into textPool, nor the reverse.
C6_CloneIndependent ==
    /\ []C6_CloneCopies
    /\ [][\A t \in Threads, c \in Inst :
            (cloneOf[c] # NoInst /\ StepBy(t))
            => LET e == cloneOf[c] IN
               /\ last'[t].e = c => inst'[e] = inst[e] /\ pool'[e] = pool[e]
               /\ last'[t].e = e => inst'[c] = inst[c] /\ pool'[c] = pool[c]
         ]_vars

\* C6 witness: a clone made inside an open frame, of a source holding a key
\* and the layout "15:04", has been written with WriteEntry; the line holds
\* the time
C6_Witness ==
    \E c \in Inst :
        /\ cloneOf[c] # NoInst
        /\ inst[cloneOf[c]].bytes # <<>>
        /\ inst[cloneOf[c]].firstNested
        /\ inst[cloneOf[c]].timeFmt = Clock
        /\ call[Main].pc = "returned"
        /\ call[Main].enc = c
        /\ Len(call[Main].sunk) > Len(LineOf([call[Main] EXCEPT !.before.timeFmt = <<>>]))

\* this step takes instance i, which no borrower held, from textPool
C7_TakenNow(i) ==
    /\ Borrowers(i) = 0
    /\ \E t \in Threads :
          /\ StepBy(t)
          /\ \/ last'[t].op = "NewColorEncoder" /\ last'[t].e = i
             \/ last'[t].op \in {"Clone", "WriteEntry"} /\ last'[t].other = i

\* C7: in every step the old bytes of an instance are a prefix of its new
\* bytes, unless no borrower held the instance and the step is the
\* NewColorEncoder, Clone or WriteEntry call that takes it from textPool.
C7_AppendOnly ==
    [][\A i \in Inst :
          IsPrefix(inst[i].bytes, inst'[i].bytes) \/ C7_TakenNow(i)]_vars

\* C7 witness: a nested callback has added a pointer-sized value behind the
\* '{' of its frame, which follows an earlier field
C7_Witness ==
    /\ last[Main].op = "AddUintptr"
    /\ stack[Main] # <<>>
    /\ last[Main].start > 0
    /\ Len(inst[last[Main].e].bytes) > last[Main].start

\* C8: from the moment WriteEntry has assembled the line until it has
\* returned, whatever sink.Write reports, the encoder it was called on is
\* as it was before the call, is not in textPool and is still the caller's.
C8_EncoderKept ==
    \A t \in Threads :
        call[t].pc \in {"write", "wrote", "returned"} =>
            /\ inst[call[t].enc] = call[t].before
            /\ pool[call[t].enc] = 0
            /\ call[t].enc \in held[t]

\* C8 witness: WriteEntry on an encoder with fields returned the
\* incomplete-write error for a count that was too large
C8_Witness ==
    /\ call[Main].pc = "returned"
    /\ call[Main].n > call[Main].expectedBytes
    /\ ret[Main] = ErrIncompleteWrite
    /\ call[Main].before.bytes # <<>>
    /\ inst[call[Main].enc] = call[Main].before

\* C9 as claimed: when WriteEntry has returned, the assembly buffer and the
\* encoder it was called on are both in textPool.
C9_ReleasesBoth ==
    \A t \in Threads :
        call[t].pc = "returned" =>
            pool[call[t].final] >= 1 /\ pool[call[t].enc] >= 1

\* C9: when WriteEntry has returned, the assembly buffer is in textPool and
\* the encoder it was called on is not: the caller holds it, and it is in
\* textPool when the caller's Free has returned.
C9_ReleasesAssemblyOnly ==
    \A t \in Threads :
        /\ call[t].pc = "returned" =>
              /\ pool[call[t].final] = 1
              /\ pool[call[t].enc] = 0
              /\ call[t].enc \in held[t]
        /\ last[t].op = "Free" =>
              /\ pool[last[t].e] = 1
              /\ last[t].e \notin held[t]

\* C9 witness: WriteEntry returned nil; only the assembly buffer is pooled
C9_Witness ==
    /\ call[Main].pc = "returned"
    /\ ret[Main] = Nil
    /\ pool[call[Main].final] = 1
    /\ pool[call[Main].enc] = 0

\* C10: an instance has at most one borrower and is then not in textPool;
\* the bytes a WriteEntry call hands to the sink are the line of its own
\* entry, with nothing another thread logs.
C10_Exclusive ==
    /\ \A i \in Inst : Borrowers(i) + pool[i] <= 1
    /\ \A t \in Threads :
          LET c == call[t] IN
          /\ c.pc = "write" => inst[c.final].bytes = LineOf(c)
          /\ c.pc \in {"wrote", "returned"} =>
                /\ c.sunk = LineOf(c)
                /\ c.msg = MessageOf(t)
                /\ \A u \in Threads \ {t}, q \in 1..Len(c.sunk) :
                      c.sunk[q] # 48 + Mark(u)

\* C10 witness: both threads are inside WriteEntry at once, one about to
\* call sink.Write and the other back from it, each on an encoder of its own
\* that holds two fields, each with an assembly buffer of its own out of the
\* pool
C10_Witness ==
    \E t \in Threads, u \in Threads :
        /\ t # u
        /\ call[t].pc = "write"
        /\ call[u].pc = "wrote"
        /\ call[t].enc # call[u].enc
        /\ call[t].final # call[u].final
        /\ pool[call[t].final] = 0
        /\ pool[call[u].final] = 0
        /\ Len(call[t].before.bytes) > ConcBytes
        /\ Len(call[u].before.bytes) > ConcBytes

\* C11: every step that writes a key K into an encoder a thread holds
\* writes, after the separator if there is one, ESC [ 3, one digit that is
\* (the sum of K's bytes) mod 7 + 1 and lies in 1..7, then ";1m", K, ESC [ 0 m
\* and '=': whatever the encoder, its bytes, its frames and the kind of value.
C11_KeyColor ==
    [][\A t \in Threads, e \in Inst :
          (/\ e \in held[t]
           /\ inst'[e].bytes # inst[e].bytes
           /\ Len(stack'[t]) >= Len(stack[t]))
          => LET new == inst'[e].bytes
                 n == Len(inst[e].bytes)
                 K == last'[t].key
                 p == IF Len(new) > n /\ new[n + 1] = 32 THEN n + 1 ELSE n
                 digit == 48 + (SumBytes(K) % 7) + 1
             IN /\ Len(new) >= p + 12 + Len(K)
                /\ digit \in 49..55
                /\ SubSeq(new, p + 1, p + 12 + Len(K))
                      = <<27, 91, 51, digit, 59, 49, 109>> \o K \o <<27, 91, 48, 109, 61>>
       ]_vars

\* C11 witness: a callback has added a float under the empty key, in a
\* frame that follows earlier bytes
C11_Witness ==
    /\ last[Main].op = "AddFloat64"
    /\ last[Main].key = <<>>
    /\ stack[Main] # <<>>
    /\ last[Main].start > 0
    /\ Len(inst[last[Main].e].bytes) > last[Main].start + 12

\* the segments of the line of a WriteEntry call c, each with its separator
TagOf(c) == addLevel(NewInstance, c.lvl).bytes

TimeSegment(c) ==
    IF c.before.timeFmt # <<>> THEN SP \o AppendFormat(c.tm, c.before.timeFmt) ELSE <<>>

MessageSegment(c) == IF c.msg # <<>> THEN SP \o PadMessage(c.msg) ELSE <<>>

FieldSegment(c) == IF c.before.bytes # <<>> THEN SP \o c.before.bytes ELSE <<>>

Written(t) == call[t].pc \in {"wrote", "returned"}

\* C12: the line handed to the sink is the level tag, then a space and the
\* timestamp iff the layout is non-empty, then a space and the message
\* segment iff the message is non-empty, then a space and the field buffer
\* iff it is non-empty, then one newline; an absent segment leaves nothing.
C12_LineLayout ==
    \A t \in Threads :
        Written(t) =>
            call[t].sunk = TagOf(call[t]) \o TimeSegment(call[t])
                           \o MessageSegment(call[t]) \o FieldSegment(call[t]) \o NL

\* C12 witness: a line of a tag, fields and a newline only, and nothing else
C12_Witness ==
    /\ call[Main].pc = "wrote"
    /\ call[Main].before.timeFmt = <<>>
    /\ call[Main].msg = <<>>
    /\ call[Main].before.bytes # <<>>
    /\ Len(call[Main].sunk) = Len(TagOf(call[Main])) + 1 + Len(call[Main].before.bytes) + 1

\* the message segment of the line thread t's WriteEntry handed to the
\* sink, cut out of the line by position: what lies between the space after
\* the tag and timestamp and the field segment
SegmentIn(t) ==
    LET c == call[t]
    IN SubSeq(c.sunk, Len(TagOf(c)) + Len(TimeSegment(c)) + 2,
              Len(c.sunk) - 1 - Len(FieldSegment(c)))

\* C13: for every non-empty message, the message segment of the rendered
\* line is the whole message followed by spaces only, and its length in
\* characters is max(25, length of the message): a message of 25 characters
\* or more is emitted unpadded and untruncated.
C13_MessagePadding ==
    \A t \in Threads :
        (Written(t) /\ call[t].msg # <<>>) =>
            LET msg == call[t].msg
                seg == SegmentIn(t)
                chars == RuneCount(msg)
            IN /\ Len(seg) >= Len(msg)
               /\ SubSeq(seg, 1, Len(msg)) = msg
               /\ \A k \in (Len(msg) + 1)..Len(seg) : seg[k] = 32
               /\ RuneCount(seg) = IF chars > 25 THEN chars ELSE 25
               /\ chars >= 25 => seg = msg

\* C13 witness: a one-character message of two bytes was padded with 24
\* spaces, before a field segment
C13_Witness ==
    /\ call[Main].pc = "wrote"
    /\ call[Main].msg = <<195, 169>>
    /\ Len(SegmentIn(Main)) = 26
    /\ call[Main].before.bytes # <<>>

\* C14: NewColorEncoder leaves the encoder with the layout of its last
\* option (TextNoTime being the option of the empty layout), or RFC3339 when
\* it has none; the encoder keeps that layout while it is held; and the line
\* WriteEntry hands to the sink has, after the tag, a space and the time in
\* that layout, or, when the layout is empty, neither of them.
C14_TimeLayout ==
    [][\A t \in Threads :
          /\ (StepBy(t) /\ last'[t].op = "NewColorEncoder")
             => LET o == last'[t].opts
                IN inst'[last'[t].e].timeFmt =
                      IF o = <<>> THEN RFC3339
                      ELSE IF o[Len(o)] = TextNoTime THEN <<>>
                      ELSE o[Len(o)].layout
          /\ \A e \in held[t] \cap held'[t] : inst'[e].timeFmt = inst[e].timeFmt
          /\ (call[t].pc = "write" /\ call'[t].pc = "wrote")
             => LET c == call'[t]
                    layout == inst[c.enc].timeFmt
                    rest == SubSeq(c.sunk, Len(TagOf(c)) + 1, Len(c.sunk))
                IN IF layout = <<>>
                   THEN rest = MessageSegment(c) \o FieldSegment(c) \o NL
                   ELSE rest = SP \o AppendFormat(c.tm, layout)
                               \o MessageSegment(c) \o FieldSegment(c) \o NL
       ]_vars

\* C14 witness: after an earlier Get, NewColorEncoder was given TextNoTime
\* and then a layout, and the encoder has the layout
C14_Witness ==
    /\ last[Main].op = "NewColorEncoder"
    /\ last[Main].opts = <<TextNoTime, TextTimeFormat(Clock)>>
    /\ inst[last[Main].e].timeFmt = Clock
    /\ gets < RenderGets - 1

\* the line starts with ESC [ 3 <digit> ; 1 m, '[', four capital letters,
\* ']' and ESC [ 0 m
TagShape(line) ==
    /\ Len(line) >= 17
    /\ SubSeq(line, 1, 3) = <<27, 91, 51>>
    /\ line[4] \in 48..57
    /\ SubSeq(line, 5, 7) = <<59, 49, 109>>
    /\ line[8] = 91
    /\ \A k \in 9..12 : line[k] \in 65..90
    /\ line[13] = 93
    /\ SubSeq(line, 14, 17) = <<27, 91, 48, 109>>

\* the color digit of a line's tag
ColorIn(line) == line[4]

\* the classes of the level table: debug, info, warn, error, and the fatal
\* class of panic and fatal
ClassOf(lvl) == IF lvl = PanicLevel THEN FatalLevel ELSE lvl

\* error, panic and fatal
RedLevels == {ErrorLevel, PanicLevel, FatalLevel}

\* two threads have each handed a line at a recognized level to the sink
BothTagged(t, u) ==
    /\ Written(t) /\ call[t].lvl \in Recognized
    /\ Written(u) /\ call[u].lvl \in Recognized

\* C15 as stated: every recognized level's tag is a bracketed abbreviation
\* in a color with a reset, and lines at levels of different classes
\* (debug, info, warn, error, fatal class) have different colors.
C15_DistinctColors ==
    \A t \in Threads, u \in Threads :
        BothTagged(t, u) =>
            /\ TagShape(call[t].sunk)
            /\ ClassOf(call[t].lvl) # ClassOf(call[u].lvl)
               => ColorIn(call[t].sunk) # ColorIn(call[u].sunk)

\* C15, amended: every recognized level's tag is a bracketed abbreviation
\* in a color with a reset, the same for the same level; the colors of
\* debug, info and warn differ from one another and from the color of
\* error; error, panic and fatal have one color.
C15_LevelTags ==
    \A t \in Threads, u \in Threads :
        BothTagged(t, u) =>
            /\ TagShape(call[t].sunk)
            /\ call[t].lvl = call[u].lvl
               => SubSeq(call[t].sunk, 1, 17) = SubSeq(call[u].sunk, 1, 17)
            /\ IF call[t].lvl \in RedLevels /\ call[u].lvl \in RedLevels
               THEN ColorIn(call[t].sunk) = ColorIn(call[u].sunk)
               ELSE call[t].lvl # call[u].lvl
                    => ColorIn(call[t].sunk) # ColorIn(call[u].sunk)

\* C15 witness: one thread has written a line at error, the other at fatal,
\* in one color
C15_Witness ==
    /\ \A t \in Threads : call[t].pc = "wrote"
    /\ call[1].lvl = ErrorLevel
    /\ call[2].lvl = FatalLevel
    /\ ColorIn(call[1].sunk) = ColorIn(call[2].sunk)

\* the same entry rendered at the info level
AtInfo(c) == Assemble(c.before, NewInstance, c.msg, InfoLevel, c.tm).bytes

\* C16: at a level that is none of debug, info, warn, error, panic and
\* fatal, negative or not, the line starts with the level's decimal digits
\* (after '-' if it is negative), with no escape byte and no bracket, and
\* goes on as the same entry's line at a recognized level goes on after its
\* tag.
C16_UnknownLevel ==
    \A t \in Threads :
        (Written(t) /\ call[t].lvl \notin Recognized) =>
            LET c == call[t]
                dec == FormatInt(c.lvl, 10)
                ref == AtInfo(c)
            IN /\ IsPrefix(dec, c.sunk)
               /\ \A k \in 1..Len(dec) :
                     \/ dec[k] \in 48..57
                     \/ k = 1 /\ c.lvl < 0 /\ dec[k] = 45
               /\ c.lvl < 0 => dec[1] = 45
               /\ TagShape(ref)
               /\ SubSeq(c.sunk, Len(dec) + 1, Len(c.sunk)) = SubSeq(ref, 18, Len(ref))

\* C16 witness: a line at level -12 with a time, a message and fields
C16_Witness ==
    /\ call[Main].pc = "wrote"
    /\ call[Main].lvl = -12
    /\ SubSeq(call[Main].sunk, 1, 3) = <<45, 49, 50>>
    /\ call[Main].before.timeFmt # <<>>
    /\ call[Main].msg # <<>>
    /\ call[Main].before.bytes # <<>>

\* C18: when sink.Write has returned a non-nil error, WriteEntry returns
\* that error, whatever count Write reported with it, and the step that
\* returns it has put the assembly buffer into the pool.
C18_SinkErrorFirst ==
    [][\A t \in Threads :
          (call[t].pc = "wrote" /\ call'[t].pc = "returned" /\ call[t].err # Nil)
          => /\ ret'[t] = call[t].err
             /\ ret'[t] # ErrIncompleteWrite
             /\ pool'[call[t].final] = pool[call[t].final] + 1
             /\ call[t].final \notin held'[t]
       ]_vars

\* C18 witness: Write reported an error and a count one short of the line,
\* and WriteEntry has returned the error
C18_Witness ==
    /\ call[Main].pc = "returned"
    /\ call[Main].err = "EIO"
    /\ call[Main].n = call[Main].expectedBytes - 1
    /\ ret[Main] = "EIO"
    /\ pool[call[Main].final] > 0

\* '{' written less '}' written in s
RECURSIVE Depth(_)
Depth(s) ==
    IF s = <<>> THEN 0
    ELSE Depth(SubSeq(s, 1, Len(s) - 1))
         + (IF Last(s) = 123 THEN 1 ELSE IF Last(s) = 125 THEN -1 ELSE 0)

\* s closes every frame it opens and no other
Nested(s) == Depth(s) = 0 /\ \A k \in 1..Len(s) : Depth(SubSeq(s, 1, k)) >= 0

\* C19: a call that adds a plain field appends bytes that open and close no
\* frame; AddMarshaler appends, before its callback runs, bytes that end
\* with '=' and the one '{' they hold; when the callback returns, with an
\* error or without, having emitted something or nothing, AddMarshaler
\* appends one '}' and nothing else, what the call has appended in all is
\* properly nested, and the first-in-frame flag is false.
C19_FramesBalanced ==
    [][\A t \in Threads :
          LET l == last'[t]
              old == inst[l.e].bytes
              new == inst'[l.e].bytes
              added == SubSeq(new, Len(old) + 1, Len(new))
          IN /\ (StepBy(t) /\ l.op \in {"AddString", "AddBool", "AddInt", "AddInt64",
                                        "AddUint", "AddUint64", "AddUintptr",
                                        "AddFloat64", "AddObject"})
                => IsPrefix(old, new) /\ \A k \in 1..Len(added) : added[k] \notin {123, 125}
             /\ (StepBy(t) /\ l.op = "MarshalLog")
                => /\ IsPrefix(old, new)
                   /\ Len(added) >= 2
                   /\ added[Len(added)] = 123
                   /\ added[Len(added) - 1] = 61
                   /\ Depth(added) = 1
                   /\ \A k \in 1..(Len(added) - 1) : added[k] \notin {123, 125}
                   /\ l.open = Len(new)
             /\ (StepBy(t) /\ l.op = "AddMarshaler")
                => /\ new = old \o <<125>>
                   /\ old[l.open] = 123
                   /\ old[l.open - 1] = 61
                   /\ Nested(SubSeq(old, l.open + 1, Len(old)))
                   /\ Nested(SubSeq(new, l.start + 1, Len(new)))
                   /\ ~inst'[l.e].firstNested
       ]_vars

\* C19 witness: inside a frame, a callback that emitted nothing has failed
\* and its AddMarshaler call has returned
C19_Witness ==
    /\ last[Main].op = "AddMarshaler"
    /\ last[Main].err = "E1"
    /\ Len(stack[Main]) = 1
    /\ stack[Main][1].enc = last[Main].e
    /\ Len(inst[last[Main].e].bytes) = last[Main].open + 1
    /\ Depth(inst[last[Main].e].bytes) = 1

\* C17: when Twin has made every call Main has made, with the same
\* arguments, each thread on the instances textPool.Get handed it (new, or
\* used before with whatever bytes, layout and flag), the encoders of the
\* two runs hold the same bytes and the same layout, and the lines the two
\* last WriteEntry calls handed to the sinks are the same.
C17_SameOutput ==
    Caught =>
        /\ call[Main].pc \in {"idle", "returned"}
           => \A p \in replay.pairs :
                 /\ inst[p[1]].bytes = inst[p[2]].bytes
                 /\ inst[p[1]].timeFmt = inst[p[2]].timeFmt
        /\ (call[Main].pc \in {"wrote", "returned"} /\ call[Twin].pc = "returned")
           => call[Main].sunk = call[Twin].sunk

\* C17 witness: Twin's encoder still has the flag its instance had in the
\* pool, Main's has not, and each has rendered a line
C17_Witness ==
    /\ Caught
    /\ call[Main].pc = "returned"
    /\ call[Twin].pc = "returned"
    /\ call[Twin].sunk # <<>>
    /\ <<call[Main].enc, call[Twin].enc>> \in replay.pairs
    /\ inst[call[Twin].enc].firstNested
    /\ ~inst[call[Main].enc].firstNested
====
